---- MODULE Spec2Model ----
\* A model of kube-scan.py: collect the images running in a cluster with
\* kubectl, scan each one with grype, count the findings per severity, print
\* the cumulative table and write the per-image CSV.
\*
\* Text is modelled as a sequence of code points, so that str.splitlines,
\* str.capitalize and the ordering used by sorted() are computed and not
\* assumed.  The two external tools and the file system are the environment:
\* every outcome subprocess.run and open() can have is a choice of the step
\* that calls them.
EXTENDS Integers, Sequences, FiniteSets, TLC

VARIABLES pc, images, idx, img, matches, s, total, per_image, summary,
          file, file0, fileOpens, trace, outcomes, raised, exitCode,
          raw, counts

vars == <<pc, images, idx, img, matches, s, total, per_image, summary,
          file, file0, fileOpens, trace, outcomes, raised, exitCode,
          raw, counts>>

-----------------------------------------------------------------------------
\* Bounds of the model.

\* longest kubectl output (in characters) a run of main collects
MaxRunChars == 3
\* longest match list grype reports for one image in a run of main
MaxMatches == 2
\* longest kubectl output (in characters) given to the collector alone
MaxChars == 6
\* longest match list given to summarize alone
MaxFindings == 2
\* longest sequence of per-image counts given to the accumulation alone
MaxReports == 2
\* largest count of one severity in those per-image counts
MaxCount == 2

-----------------------------------------------------------------------------
\* Text.

\* "\n", the separator the jsonpath template puts after every image
NL == 10

\* the characters of a kubectl output: "\n", "a" and "b"
Alphabet == {NL, 97, 98}

SeqsUpTo(S, n) == UNION {[1..k -> S] : k \in 0..n}

Range(f) == {f[i] : i \in DOMAIN f}

\* str.upper and str.lower on one ASCII character
Upper(c) == IF c >= 97 /\ c <= 122 THEN c - 32 ELSE c

Lower(c) == IF c >= 65 /\ c <= 90 THEN c + 32 ELSE c

\* str.capitalize: the first character upper-cased, the rest lower-cased
Capitalize(str) ==
    [i \in 1..Len(str) |-> IF i = 1 THEN Upper(str[i]) ELSE Lower(str[i])]

\* the order of str.__lt__: code point by code point, a proper prefix first
LexLess(a, b) ==
    \/ \E i \in 1..Len(a) :
          /\ i <= Len(b)
          /\ \A j \in 1..(i - 1) : a[j] = b[j]
          /\ a[i] < b[i]
    \/ /\ Len(a) < Len(b)
       /\ \A j \in 1..Len(a) : a[j] = b[j]

\* str.splitlines: the pieces between line breaks, no piece after a final break
RECURSIVE SplitLines(_)
SplitLines(text) ==
    IF text = <<>> THEN <<>>
    ELSE IF \E i \in 1..Len(text) : text[i] = NL
         THEN LET i == CHOOSE k \in 1..Len(text) :
                           /\ text[k] = NL
                           /\ \A j \in 1..(k - 1) : text[j] # NL
              IN  <<SubSeq(text, 1, i - 1)>>
                    \o SplitLines(SubSeq(text, i + 1, Len(text)))
         ELSE <<text>>

\* sorted(): the elements of a set of strings in increasing order
RECURSIVE Sorted(_)
Sorted(S) ==
    IF S = {} THEN <<>>
    ELSE LET m == CHOOSE x \in S : \A y \in S \ {x} : LexLess(x, y)
         IN  <<m>> \o Sorted(S \ {m})

\* the four labels of the tuple on lines 39 and 57
Critical == <<67, 114, 105, 116, 105, 99, 97, 108>>

High == <<72, 105, 103, 104>>

Medium == <<77, 101, 100, 105, 117, 109>>

Low == <<76, 111, 119>>

Severities == <<Critical, High, Medium, Low>>

-----------------------------------------------------------------------------
\* dict and defaultdict(int): a function whose domain is the keys present.

EmptyDict == [k \in {} |-> 0]

DictGet(d, k, default) == IF k \in DOMAIN d THEN d[k] ELSE default

\* d[k] += n on a defaultdict(int)
DictAdd(d, k, n) ==
    [j \in (DOMAIN d) \cup {k} |-> IF j = k THEN DictGet(d, k, 0) + n ELSE d[j]]

-----------------------------------------------------------------------------
\* get_unique_images

\* sorted(set(filter(None, lines)))
ParseLines_keeps_empty(lines) == Sorted(Range(lines))

ParseLines(lines) == Sorted({l \in Range(lines) : l # <<>>})

\* what the kubectl invocation can do: exit 0 with some text, exit non-zero,
\* or fail to start
KubectlOutcomes(texts) ==
    {[kind |-> "ok", stdout |-> t] : t \in texts}
        \cup {[kind |-> k, stdout |-> <<>>] : k \in {"nonzero", "nospawn"}}

get_unique_images(o) ==
    CASE o.kind = "nospawn" -> [raised |-> "FileNotFoundError", ret |-> <<>>]
      [] o.kind = "nonzero" -> [raised |-> "CalledProcessError", ret |-> <<>>]
      [] OTHER -> [raised |-> "none", ret |-> ParseLines(SplitLines(o.stdout))]

-----------------------------------------------------------------------------
\* scan_image

\* One match of grype's JSON, as far as summarize reads it:
\*   vuln = "absent"  no "vulnerability" key
\*   vuln = "null"    "vulnerability": null
\*   vuln = "obj"     an object, whose "severity" is absent, null or a string
Match(v, t, str) == [vuln |-> v, sev |-> t, label |-> str]

MatchLabel(str) == Match("obj", "str", str)

\* "high", "HIGH", "unknown" and ""
LowerHigh == <<104, 105, 103, 104>>

UpperHigh == <<72, 73, 71, 72>>

Unknown == <<117, 110, 107, 110, 111, 119, 110>>

\* "mEDIUM" and "LOW"
OddMedium == <<109, 69, 68, 73, 85, 77>>

UpperLow == <<76, 79, 87>>

\* the matches a scan in a run of main reports
RunMatches ==
    {MatchLabel(Critical), MatchLabel(LowerHigh), MatchLabel(Unknown),
     Match("obj", "null", <<>>)}

\* what the grype invocation can do: exit non-zero, fail to start, exit 0 with
\* text that is not JSON, with JSON that is not an object, with an object
\* without "matches", or with an object holding a list of matches
GrypeOutcomes ==
    {[kind |-> k, matches |-> <<>>] :
        k \in {"nonzero", "nospawn", "badjson", "notobject", "nomatches"}}
        \cup {[kind |-> "ok", matches |-> ms] : ms \in SeqsUpTo(RunMatches, MaxMatches)}

scan_image_propagates(image, o) ==
    CASE o.kind = "nospawn" ->
           [raised |-> "FileNotFoundError", ret |-> <<>>, warned |-> FALSE]
      [] o.kind = "nonzero" ->
           [raised |-> "CalledProcessError", ret |-> <<>>, warned |-> FALSE]
      [] o.kind = "badjson" ->
           [raised |-> "JSONDecodeError", ret |-> <<>>, warned |-> FALSE]
      [] o.kind = "notobject" ->
           [raised |-> "AttributeError", ret |-> <<>>, warned |-> FALSE]
      [] o.kind = "nomatches" ->
           [raised |-> "none", ret |-> <<>>, warned |-> FALSE]
      [] OTHER ->
           [raised |-> "none", ret |-> o.matches, warned |-> FALSE]

\* only subprocess.CalledProcessError is caught: the other exceptions of the
\* try block leave scan_image
scan_image(image, o) ==
    CASE o.kind = "nospawn" ->
           [raised |-> "FileNotFoundError", ret |-> <<>>, warned |-> FALSE]
      [] o.kind = "nonzero" ->
           [raised |-> "none", ret |-> <<>>, warned |-> TRUE]
      [] o.kind = "badjson" ->
           [raised |-> "JSONDecodeError", ret |-> <<>>, warned |-> FALSE]
      [] o.kind = "notobject" ->
           [raised |-> "AttributeError", ret |-> <<>>, warned |-> FALSE]
      [] o.kind = "nomatches" ->
           [raised |-> "none", ret |-> <<>>, warned |-> FALSE]
      [] OTHER ->
           [raised |-> "none", ret |-> o.matches, warned |-> FALSE]

-----------------------------------------------------------------------------
\* summarize

\* m.get("vulnerability", {}).get("severity", ""): the label, or the
\* AttributeError of calling .get or .capitalize on None
SeverityOf(m) ==
    CASE m.vuln = "absent" -> [raised |-> "none", label |-> <<>>]
      [] m.vuln = "null" -> [raised |-> "AttributeError", label |-> <<>>]
      [] m.sev = "absent" -> [raised |-> "none", label |-> <<>>]
      [] m.sev = "null" -> [raised |-> "AttributeError", label |-> <<>>]
      [] OTHER -> [raised |-> "none", label |-> m.label]

\* the loop of summarize from match i on, cnt being the counts so far
RECURSIVE SummarizeFrom(_, _, _)
SummarizeFrom(ms, i, cnt) ==
    IF i > Len(ms) THEN [raised |-> "none", ret |-> cnt]
    ELSE LET g == SeverityOf(ms[i])
             sev == Capitalize(g.label)
         IN  IF g.raised # "none" THEN [raised |-> g.raised, ret |-> EmptyDict]
             ELSE IF sev \in Range(Severities)
                  THEN SummarizeFrom(ms, i + 1, DictAdd(cnt, sev, 1))
                  ELSE SummarizeFrom(ms, i + 1, cnt)

summarize(ms) == SummarizeFrom(ms, 1, EmptyDict)

-----------------------------------------------------------------------------
\* main: the pieces of the loop body

\* for sev in (...): total[sev] += s.get(sev, 0), from label i on
RECURSIVE AccumulateFrom(_, _, _)
AccumulateFrom(tot, cnt, i) ==
    IF i > Len(Severities) THEN tot
    ELSE AccumulateFrom(DictAdd(tot, Severities[i], DictGet(cnt, Severities[i], 0)),
                        cnt, i + 1)

Accumulate_overwrites(tot, cnt) ==
    [k \in Range(Severities) |-> DictGet(cnt, k, 0)]

Accumulate_skips_low(tot, cnt) ==
    [k \in Range(Severities) |->
        IF k = Low THEN DictGet(tot, k, 0)
        ELSE DictGet(tot, k, 0) + DictGet(cnt, k, 0)]

Accumulate(tot, cnt) == AccumulateFrom(tot, cnt, 1)

\* the dict appended to per_image
ImageRow(image, cnt) ==
    [Image |-> image,
     Critical |-> DictGet(cnt, Critical, 0),
     High |-> DictGet(cnt, High, 0),
     Medium |-> DictGet(cnt, Medium, 0),
     Low |-> DictGet(cnt, Low, 0)]

AppendRow_in_front(rows, row) == <<row>> \o rows

AppendRow(rows, row) == Append(rows, row)

\* the row given to tabulate
SummaryRow(tot) ==
    <<DictGet(tot, Critical, 0), DictGet(tot, High, 0),
      DictGet(tot, Medium, 0), DictGet(tot, Low, 0)>>

\* if not images
NoImages_never(imgs) == FALSE

NoImages(imgs) == imgs = <<>>

\* the for loop has no image left
LoopDone_after_first(i, imgs) == i >= 1 \/ i = Len(imgs)

LoopDone(i, imgs) == i = Len(imgs)

-----------------------------------------------------------------------------
\* The run of main.  trace is the order of what the process does that can be
\* seen from outside: the processes it starts and the lines it prints.

Ev(ch, what, arg) == [ch |-> ch, what |-> what, arg |-> arg]

RunPcs ==
    {"collect", "check", "loop", "scan", "summarize", "accumulate", "append",
     "open", "write", "confirm"}

Init ==
    /\ pc = "collect"
    /\ images = <<>>
    /\ idx = 0
    /\ img = <<>>
    /\ matches = <<>>
    /\ s = EmptyDict
    /\ total = EmptyDict
    /\ per_image = <<>>
    /\ summary = <<>>
    /\ file0 \in {"absent", "stale"}
    /\ file = [state |-> file0, rows |-> <<>>]
    /\ fileOpens = 0
    /\ trace = <<>>
    /\ outcomes = <<>>
    /\ raised = "none"
    /\ exitCode = -1
    /\ raw = <<>>
    /\ counts = <<>>

\* an exception nobody catches: the interpreter prints the traceback on
\* stderr and the process ends with the given status
Die(exc, code, before) ==
    /\ pc' = "exited"
    /\ raised' = exc
    /\ exitCode' = code
    /\ trace' = trace \o before \o <<Ev("stderr", "traceback", <<>>)>>

\* images = get_unique_images()
Collect ==
    /\ pc = "collect"
    /\ \E o \in KubectlOutcomes(SeqsUpTo(Alphabet, MaxRunChars)) :
          LET r == get_unique_images(o)
              run == <<Ev("exec", "kubectl", <<>>)>>
          IN  IF r.raised = "none"
              THEN /\ images' = r.ret
                   /\ pc' = "check"
                   /\ trace' = trace \o run
                   /\ UNCHANGED <<raised, exitCode>>
              ELSE /\ Die(r.raised, 1, run)
                   /\ UNCHANGED images
    /\ UNCHANGED <<idx, img, matches, s, total, per_image, summary, file,
                   file0, fileOpens, outcomes, raw, counts>>

\* if not images: print("No images found."); sys.exit(1)
\* otherwise total and per_image are created
CheckImages ==
    /\ pc = "check"
    /\ IF NoImages(images)
       THEN /\ pc' = "exited"
            /\ raised' = "SystemExit"
            /\ exitCode' = 1
            /\ trace' = Append(trace, Ev("stderr", "no_images", <<>>))
       ELSE /\ pc' = "loop"
            /\ UNCHANGED <<raised, exitCode, trace>>
    /\ total' = EmptyDict
    /\ per_image' = <<>>
    /\ UNCHANGED <<images, idx, img, matches, s, summary, file, file0,
                   fileOpens, outcomes, raw, counts>>

\* for img in images: print("Scanning: img")
Progress ==
    /\ pc = "loop"
    /\ ~LoopDone(idx, images)
    /\ idx' = idx + 1
    /\ img' = images[idx + 1]
    /\ trace' = Append(trace, Ev("stdout", "scanning", images[idx + 1]))
    /\ pc' = "scan"
    /\ UNCHANGED <<images, matches, s, total, per_image, summary, file, file0,
                   fileOpens, outcomes, raised, exitCode, raw, counts>>

\* matches = scan_image(img)
Scan ==
    /\ pc = "scan"
    /\ \E o \in GrypeOutcomes :
          LET r == scan_image(img, o)
              run == <<Ev("exec", "grype", img)>>
                       \o (IF r.warned THEN <<Ev("stderr", "warning", img)>>
                           ELSE <<>>)
          IN  /\ outcomes' = Append(outcomes, o.kind)
              /\ IF r.raised = "none"
                 THEN /\ matches' = r.ret
                      /\ pc' = "summarize"
                      /\ trace' = trace \o run
                      /\ UNCHANGED <<raised, exitCode>>
                 ELSE /\ Die(r.raised, 1, run)
                      /\ UNCHANGED matches
    /\ UNCHANGED <<images, idx, img, s, total, per_image, summary, file,
                   file0, fileOpens, raw, counts>>

\* s = summarize(matches)
Summarize ==
    /\ pc = "summarize"
    /\ LET r == summarize(matches)
       IN  IF r.raised = "none"
           THEN /\ s' = r.ret
                /\ pc' = "accumulate"
                /\ UNCHANGED <<raised, exitCode, trace>>
           ELSE /\ Die(r.raised, 1, <<>>)
                /\ UNCHANGED s
    /\ UNCHANGED <<images, idx, img, matches, total, per_image, summary, file,
                   file0, fileOpens, outcomes, raw, counts>>

\* for sev in (...): total[sev] += s.get(sev, 0)
AddToTotal ==
    /\ pc = "accumulate"
    /\ total' = Accumulate(total, s)
    /\ pc' = "append"
    /\ UNCHANGED <<images, idx, img, matches, s, per_image, summary, file,
                   file0, fileOpens, trace, outcomes, raised, exitCode, raw,
                   counts>>

\* per_image.append({...}), and back to the head of the loop
AppendReport ==
    /\ pc = "append"
    /\ per_image' = AppendRow(per_image, ImageRow(img, s))
    /\ pc' = "loop"
    /\ UNCHANGED <<images, idx, img, matches, s, total, summary, file, file0,
                   fileOpens, trace, outcomes, raised, exitCode, raw, counts>>

\* the loop is over: print(tabulate(summary, ...))
Render ==
    /\ pc = "loop"
    /\ LoopDone(idx, images)
    /\ summary' = <<SummaryRow(total)>>
    /\ trace' = Append(trace, Ev("stdout", "summary", <<>>))
    /\ pc' = "open"
    /\ UNCHANGED <<images, idx, img, matches, s, total, per_image, file, file0,
                   fileOpens, outcomes, raised, exitCode, raw, counts>>

\* open(csv_file, "w"): the file is created or truncated, or OSError
OpenFile ==
    /\ pc = "open"
    /\ fileOpens' = fileOpens + 1
    /\ \E ok \in BOOLEAN :
          IF ok
          THEN /\ file' = [state |-> "truncated", rows |-> <<>>]
               /\ pc' = "write"
               /\ UNCHANGED <<raised, exitCode, trace>>
          ELSE /\ Die("OSError", 1, <<>>)
               /\ UNCHANGED file
    /\ UNCHANGED <<images, idx, img, matches, s, total, per_image, summary,
                   file0, outcomes, raw, counts>>

\* writer.writeheader(); writer.writerows(per_image) and the close of the
\* with block: every row reaches the file, or OSError after some of them
WriteRows ==
    /\ pc = "write"
    /\ \E ok \in BOOLEAN :
          IF ok
          THEN /\ file' = [state |-> "written", rows |-> per_image]
               /\ pc' = "confirm"
               /\ UNCHANGED <<raised, exitCode, trace>>
          ELSE /\ \E n \in 0..Len(per_image) :
                     file' = [state |-> "partial", rows |-> SubSeq(per_image, 1, n)]
               /\ Die("OSError", 1, <<>>)
    /\ UNCHANGED <<images, idx, img, matches, s, total, per_image, summary,
                   file0, fileOpens, outcomes, raw, counts>>

\* print("Per-image details written to: ..."), and main returns
Confirm ==
    /\ pc = "confirm"
    /\ trace' = Append(trace, Ev("stdout", "written", <<>>))
    /\ exitCode' = 0
    /\ pc' = "exited"
    /\ UNCHANGED <<images, idx, img, matches, s, total, per_image, summary,
                   file, file0, fileOpens, outcomes, raised, raw, counts>>

\* SIGINT while main runs: KeyboardInterrupt, which nothing catches
Interrupt ==
    /\ pc \in RunPcs
    /\ Die("KeyboardInterrupt", 130, <<>>)
    /\ UNCHANGED <<images, idx, img, matches, s, total, per_image, summary,
                   file, file0, fileOpens, outcomes, raw, counts>>

Next ==
    \/ Collect
    \/ CheckImages
    \/ Progress
    \/ Scan
    \/ Summarize
    \/ AddToTotal
    \/ AppendReport
    \/ Render
    \/ OpenFile
    \/ WriteRows
    \/ Confirm
    \/ Interrupt

Spec == Init /\ [][Next]_vars

-----------------------------------------------------------------------------
\* The three pure computations on their own, each applied to an input drawn
\* from a bounded set.

\* get_unique_images on a kubectl that exits 0 with the text raw
InitCollect ==
    /\ pc = "fn_collect"
    /\ raw \in SeqsUpTo(Alphabet, MaxChars)
    /\ images = <<>>
    /\ idx = 0
    /\ img = <<>>
    /\ matches = <<>>
    /\ s = EmptyDict
    /\ total = EmptyDict
    /\ per_image = <<>>
    /\ summary = <<>>
    /\ file0 = "absent"
    /\ file = [state |-> file0, rows |-> <<>>]
    /\ fileOpens = 0
    /\ trace = <<>>
    /\ outcomes = <<>>
    /\ raised = "none"
    /\ exitCode = -1
    /\ counts = <<>>

CollectFn ==
    /\ pc = "fn_collect"
    /\ LET r == get_unique_images([kind |-> "ok", stdout |-> raw])
       IN  /\ images' = r.ret
           /\ raised' = r.raised
    /\ pc' = "fn_done"
    /\ UNCHANGED <<idx, img, matches, s, total, per_image, summary, file,
                   file0, fileOpens, trace, outcomes, exitCode, raw, counts>>

SpecCollect == InitCollect /\ [][CollectFn]_vars

\* the matches given to summarize: the labels "Critical", "high", "HIGH",
\* "mEDIUM", "LOW", "unknown" and "", a match without "severity", one
\* without "vulnerability", and the two with null in their place
FnMatches ==
    {MatchLabel(l) : l \in {Critical, LowerHigh, UpperHigh, OddMedium,
                            UpperLow, Unknown, <<>>}}
        \cup {Match("obj", "absent", <<>>), Match("absent", "absent", <<>>),
              Match("obj", "null", <<>>), Match("null", "absent", <<>>)}

\* the severities "Critical", "high", "HIGH", "unknown"
ScenarioB ==
    <<MatchLabel(Critical), MatchLabel(LowerHigh), MatchLabel(UpperHigh),
      MatchLabel(Unknown)>>

InitSummarize ==
    /\ pc = "fn_summarize"
    /\ matches \in SeqsUpTo(FnMatches, MaxFindings) \cup {ScenarioB}
    /\ images = <<>>
    /\ idx = 0
    /\ img = <<>>
    /\ s = EmptyDict
    /\ total = EmptyDict
    /\ per_image = <<>>
    /\ summary = <<>>
    /\ file0 = "absent"
    /\ file = [state |-> file0, rows |-> <<>>]
    /\ fileOpens = 0
    /\ trace = <<>>
    /\ outcomes = <<>>
    /\ raised = "none"
    /\ exitCode = -1
    /\ raw = <<>>
    /\ counts = <<>>

SummarizeFn ==
    /\ pc = "fn_summarize"
    /\ LET r == summarize(matches)
       IN  /\ s' = r.ret
           /\ raised' = r.raised
    /\ pc' = "fn_done"
    /\ UNCHANGED <<images, idx, img, matches, total, per_image, summary, file,
                   file0, fileOpens, trace, outcomes, exitCode, raw, counts>>

SpecSummarize == InitSummarize /\ [][SummarizeFn]_vars

\* what summarize returns for an image with at most MaxCount counted matches:
\* a key is present only if it was counted
CountDicts ==
    {[k \in {j \in Range(Severities) : d[j] > 0} |-> d[k]] :
        d \in {e \in [Range(Severities) -> 0..MaxCount] :
                  e[Critical] + e[High] + e[Medium] + e[Low] <= MaxCount}}

\* {C:1, H:0, M:2, L:0} and {C:0, H:3, M:0, L:1}
ScenarioE ==
    <<DictAdd(DictAdd(EmptyDict, Critical, 1), Medium, 2),
      DictAdd(DictAdd(EmptyDict, High, 3), Low, 1)>>

InitAccumulate ==
    /\ pc = "fn_accumulate"
    /\ counts \in SeqsUpTo(CountDicts, MaxReports) \cup {ScenarioE}
    /\ images = <<>>
    /\ idx = 0
    /\ img = <<>>
    /\ matches = <<>>
    /\ s = EmptyDict
    /\ total = EmptyDict
    /\ per_image = <<>>
    /\ summary = <<>>
    /\ file0 = "absent"
    /\ file = [state |-> file0, rows |-> <<>>]
    /\ fileOpens = 0
    /\ trace = <<>>
    /\ outcomes = <<>>
    /\ raised = "none"
    /\ exitCode = -1
    /\ raw = <<>>

\* lines 57-58 for the next per-image counts
AccumulateFn ==
    /\ pc = "fn_accumulate"
    /\ idx < Len(counts)
    /\ idx' = idx + 1
    /\ s' = counts[idx + 1]
    /\ total' = Accumulate(total, counts[idx + 1])
    /\ UNCHANGED <<pc, images, img, matches, per_image, summary, file, file0,
                   fileOpens, trace, outcomes, raised, exitCode, raw, counts>>

\* lines 68-73 once every counts is added
SummaryFn ==
    /\ pc = "fn_accumulate"
    /\ idx = Len(counts)
    /\ summary' = <<SummaryRow(total)>>
    /\ pc' = "fn_done"
    /\ UNCHANGED <<images, idx, img, matches, s, total, per_image, file, file0,
                   fileOpens, trace, outcomes, raised, exitCode, raw, counts>>

NextAccumulate ==
    \/ AccumulateFn
    \/ SummaryFn

SpecAccumulate == InitAccumulate /\ [][NextAccumulate]_vars

-----------------------------------------------------------------------------
\* What the properties below speak of.

\* the progress lines and the starts of grype
IsScanStep(e) == e.what = "scanning" \/ e.what = "grype"

Warned(image) == \E i \in 1..Len(trace) : trace[i] = Ev("stderr", "warning", image)

Seen(ch, what) == \E i \in 1..Len(trace) : trace[i].ch = ch /\ trace[i].what = what

FileUntouched == fileOpens = 0 /\ file = [state |-> file0, rows |-> <<>>]

ZeroRow(image) ==
    [Image |-> image, Critical |-> 0, High |-> 0, Medium |-> 0, Low |-> 0]

\* the count of one severity in a row of per_image
RowCount(row, k) ==
    CASE k = Critical -> row.Critical
      [] k = High -> row.High
      [] k = Medium -> row.Medium
      [] OTHER -> row.Low

RECURSIVE SumRows(_, _)
SumRows(rows, k) ==
    IF rows = <<>> THEN 0
    ELSE RowCount(Head(rows), k) + SumRows(Tail(rows), k)

RECURSIVE SumCounts(_, _)
SumCounts(cs, k) ==
    IF cs = <<>> THEN 0
    ELSE DictGet(Head(cs), k, 0) + SumCounts(Tail(cs), k)

\* the accumulation of lines 57-58 over a whole sequence of counts
RECURSIVE AccumulateAll(_, _)
AccumulateAll(tot, cs) ==
    IF cs = <<>> THEN tot
    ELSE AccumulateAll(Accumulate(tot, Head(cs)), Tail(cs))

Permuted(seq, p) == [i \in 1..Len(seq) |-> seq[p[i]]]

SameIgnoringCase(a, b) ==
    /\ Len(a) = Len(b)
    /\ \A i \in 1..Len(a) : Lower(a[i]) = Lower(b[i])

\* a finding carries the label k, whatever the case of its letters
Carries(m, k) ==
    /\ m.vuln = "obj"
    /\ m.sev = "str"
    /\ SameIgnoringCase(m.label, k)

\* the failures of a grype invocation
ScanFailures == {"nonzero", "nospawn", "badjson", "notobject"}

\* what ends a run other than a grype that exits non-zero
OtherFailures ==
    {"FileNotFoundError", "JSONDecodeError", "AttributeError", "OSError",
     "KeyboardInterrupt"}

-----------------------------------------------------------------------------
\* C1: whatever way the grype invocation for an image fails (non-zero exit,
\* output that is not the expected JSON, the process not starting), no
\* exception reaches main: a warning naming the image is on stderr, the scan
\* yields no finding, the image's row is all zeros and the run goes on.
C1_ScanFailureIsolated ==
    \A k \in 1..Len(outcomes) :
        outcomes[k] \in ScanFailures =>
            /\ Warned(images[k])
            /\ raised \in {"none", "KeyboardInterrupt"} \/ Len(per_image) >= k
            /\ k <= Len(per_image) => per_image[k] = ZeroRow(images[k])

\* C2: a run that collected at least one image and in which grype exited
\* non-zero for some images, and that nothing else ended (no other failure of
\* a scan, of the write, no interrupt), scanned every image, gave the failed
\* ones an all-zero row, rendered the summary, wrote the file and exited 0.
C2_NonZeroExitTolerated ==
    ( /\ pc = "exited"
      /\ images # <<>>
      /\ "nonzero" \in Range(outcomes)
      /\ raised \notin OtherFailures )
    => /\ exitCode = 0
       /\ raised = "none"
       /\ Len(outcomes) = Len(images)
       /\ Len(per_image) = Len(images)
       /\ \A k \in 1..Len(images) :
             outcomes[k] = "nonzero" => per_image[k] = ZeroRow(images[k])
       /\ summary # <<>>
       /\ file = [state |-> "written", rows |-> per_image]

C2_Witness ==
    /\ pc = "exited"
    /\ exitCode = 0
    /\ Len(images) = 2
    /\ outcomes = <<"nonzero", "ok">>
    /\ per_image[2].Critical = 1
    /\ file.state = "written"

\* C3: when the collection fails or finds no image, the run never enters the
\* loop: it ends with a non-zero status, no grype was started, no summary was
\* rendered, the file is as it was before the run, and in the empty case the
\* "no images" message is on stderr.
C3_NoInventoryNoReport ==
    /\ pc \in RunPcs \ {"collect", "check"} => images # <<>>
    /\ ( /\ pc = "exited"
         /\ images = <<>>
         /\ raised # "KeyboardInterrupt" )
       => /\ exitCode > 0
          /\ ~Seen("exec", "grype")
          /\ outcomes = <<>>
          /\ summary = <<>>
          /\ ~Seen("stdout", "summary")
          /\ FileUntouched
          /\ raised \in {"CalledProcessError", "FileNotFoundError", "SystemExit"}
          /\ raised = "SystemExit" <=> Seen("stderr", "no_images")

C3_Witness ==
    /\ pc = "exited"
    /\ images = <<>>
    /\ raised = "SystemExit"
    /\ trace = <<Ev("exec", "kubectl", <<>>), Ev("stderr", "no_images", <<>>)>>
    /\ file0 = "stale"

\* C4: at every boundary between two iterations of the scan loop, and after
\* the loop, the running total of each severity is the sum of that severity
\* over the rows appended to per_image so far.
C4_TotalIsSumOfRows ==
    (pc \in {"loop", "open", "write", "confirm"} \/ (pc = "exited" /\ exitCode = 0))
    => \A k \in Range(Severities) : DictGet(total, k, 0) = SumRows(per_image, k)

C4_Witness ==
    /\ pc = "loop"
    /\ Len(per_image) = 2
    /\ per_image[1].Critical = 1
    /\ per_image[2].Critical = 1
    /\ per_image[2].High = 1
    /\ total[Critical] = 2

\* C5: summarize raises nothing, and counts in each of the four buckets the
\* findings whose severity is that label up to the case of its letters; the
\* findings with another, an empty, a missing or a malformed severity are in
\* no bucket, so the four counts add up to the number of recognized findings.
C5_SummarizeCountsRecognized ==
    pc = "fn_done" =>
        /\ raised = "none"
        /\ \A k \in Range(Severities) :
              DictGet(s, k, 0)
                = Cardinality({i \in 1..Len(matches) : Carries(matches[i], k)})
        /\ DictGet(s, Critical, 0) + DictGet(s, High, 0)
             + DictGet(s, Medium, 0) + DictGet(s, Low, 0)
             = Cardinality({i \in 1..Len(matches) :
                               \E k \in Range(Severities) : Carries(matches[i], k)})
        /\ DOMAIN s \subseteq Range(Severities)

\* C6: the collector's result holds exactly the distinct non-empty lines of
\* the kubectl output, each once, in strictly increasing order, and is the
\* same for every permutation of the lines.
C6_UniqueImagesSortedNoBlank ==
    pc = "fn_done" =>
        LET lines == SplitLines(raw)
            kept == {l \in Range(lines) : l # <<>>}
        IN  /\ Range(images) = kept
            /\ Len(images) = Cardinality(kept)
            /\ <<>> \notin Range(images)
            /\ \A i \in 1..(Len(images) - 1) : LexLess(images[i], images[i + 1])
            /\ \A p \in Permutations(1..Len(lines)) :
                  ParseLines(Permuted(lines, p)) = images

\* "b", "", "b", "a" gives "a", "b"
C6_Witness ==
    /\ pc = "fn_done"
    /\ raw = <<98, 10, 10, 98, 10, 97>>
    /\ images = << <<97>>, <<98>> >>

\* C7: once the loop is left, grype was started exactly once for each
\* collected image, in the collector's increasing order, each start right
\* after that image's progress line; per_image, and the rows of a written
\* file, hold one row per image in that order; and no step ever changes or
\* removes a row that is in per_image.
C7_OneRowPerImageInOrder ==
    /\ [](summary # <<>> =>
            LET steps == SelectSeq(trace, IsScanStep)
            IN  /\ Len(steps) = 2 * Len(images)
                /\ \A i \in 1..Len(images) :
                      /\ steps[2 * i - 1] = Ev("stdout", "scanning", images[i])
                      /\ steps[2 * i] = Ev("exec", "grype", images[i])
                      /\ per_image[i].Image = images[i]
                /\ Len(per_image) = Len(images)
                /\ \A i \in 1..(Len(images) - 1) : LexLess(images[i], images[i + 1])
                /\ file.state = "written" => file.rows = per_image)
    /\ [][/\ Len(per_image') >= Len(per_image)
          /\ \A i \in 1..Len(per_image) : per_image'[i] = per_image[i]]_vars

C7_Witness ==
    /\ pc = "exited"
    /\ exitCode = 0
    /\ Len(images) = 2
    /\ Len(file.rows) = 2
    /\ file.rows[1].Image = images[1]
    /\ file.rows[2].High = 1

\* C8: when the detail file cannot be created or written, the rows of
\* per_image are put on stderr before the process ends.
C8_ReportSurfacedOnWriteError ==
    (pc = "exited" /\ raised = "OSError") => Seen("stderr", "report")

\* C9: the total the accumulation ends with is the element-wise sum of the
\* per-image counts, and is the same whatever order they are added in.
C9_TotalIsOrderFreeSum ==
    pc = "fn_done" =>
        /\ summary = << <<SumCounts(counts, Critical), SumCounts(counts, High),
                          SumCounts(counts, Medium), SumCounts(counts, Low)>> >>
        /\ \A p \in Permutations(1..Len(counts)) :
              SummaryRow(AccumulateAll(EmptyDict, Permuted(counts, p))) = summary[1]

C9_Witness ==
    /\ pc = "fn_done"
    /\ counts = ScenarioE
    /\ summary = << <<1, 3, 2, 1>> >>

\* C10: the detail file is opened at most once in a run, and only when every
\* collected image has its row and the summary is rendered; while an image
\* is still to be processed, and in a run that ended there, the file is as
\* it was before the run.
C10_FileOnlyAfterAllScanned ==
    /\ fileOpens <= 1
    /\ ~FileUntouched =>
          /\ summary # <<>>
          /\ images # <<>>
          /\ idx = Len(images)
          /\ Len(per_image) = Len(images)
    /\ Len(per_image) < Len(images) => FileUntouched
    /\ file.state = "written" => file.rows = per_image

C10_Witness ==
    /\ pc = "exited"
    /\ exitCode = 0
    /\ file0 = "stale"
    /\ fileOpens = 1
    /\ Len(images) = 2
    /\ file = [state |-> "written", rows |-> per_image]

====
